---- MODULE Spec2Model ----
(***************************************************************************)
(* Model of the FMCG dashboard's two data pipelines:                       *)
(*   agent.py       fetch_google_shopping_peanut_data (normalisation loop  *)
(*                  and base metrics), generate_synthetic_campaign_data    *)
(*                  (enrich), product_recommendation                       *)
(*   promotions.py  detect_promotions                                      *)
(*                                                                         *)
(* Number representation.  Python floats are modelled by exact integers    *)
(* and rationals: a price or a rating is an integer number of hundredths   *)
(* (4.99 is 499, a rating of 4.5 is 450); a quotient the code leaves       *)
(* unrounded (sales_proxy, a mean price) is a pair num/den; a value the    *)
(* code rounds to k decimals is the integer number of 10^-k units, rounded *)
(* half to even as round() does.  Python strings are tuples of one-        *)
(* character strings, so that float() and str.contains() are computed.     *)
(***************************************************************************)
EXTENDS Integers, Sequences, FiniteSets, TLC

VARIABLES
    resp,           \* the search provider's answer to the next requests.get
    products,       \* the list built by the loop of the last fetch
    df,             \* the table returned by the last fetch / transformed by enrich
    prev_df,        \* the table as it was before the last application of enrich
    report,         \* what the last agent tool call produced
    price_history,  \* the argument of detect_promotions
    promotions,     \* what detect_promotions returned
    pc,             \* which operation ran last
    session_df,     \* st.session_state.df, the listing snapshot
    messages,       \* st.session_state.messages, the conversation history
    selected,       \* the row chosen in the product selector, 0 before any
    price_resp,     \* the price provider's answer to the last lookup
    requests,       \* the requests.get calls of the last script run
    fault,          \* the exception that ended the last script run
    stats,          \* what get_promotion_statistics returned
    shown           \* the promotion statistics the page displays

session_vars == <<session_df, messages, selected, price_resp, requests, fault>>

vars == <<resp, products, df, prev_df, report, price_history, promotions, pc,
          session_vars, stats, shown>>

----------------------------------------------------------------------------
(* Bounds of the model *)

MaxResults == 3
MaxToolResults == 6
MaxRows == 3
MaxPoints == 3
MaxTopResults == 4
MaxTopN == 5
MaxSessionResults == 1
MaxPrompts == 2

(* Program constants *)

DefaultPosition == 1000
SalesProxyScale == 1000
MinPosition == 1
MinReviews == 5
TopK == 5

----------------------------------------------------------------------------
(* Python values *)

\* t: "missing" (the key is not in the dict), "none" (None / NaN),
\*    "num", "bool", "str", "dict" (a dict whose "value" entry is vt/n/s)
PyVal(t, vt, n, s) == [t |-> t, vt |-> vt, n |-> n, s |-> s]
Missing == PyVal("missing", "none", 0, <<>>)
PyNone == PyVal("none", "none", 0, <<>>)
PyNum(x) == PyVal("num", "none", x, <<>>)
PyBool(b) == PyVal("bool", "none", IF b THEN 1 ELSE 0, <<>>)
PyStr(chars) == PyVal("str", "none", 0, chars)
PyDict(value) == PyVal("dict", value.t, value.n, value.s)

\* dict.get(key): an absent key reads as None
Get(v) == IF v.t = "missing" THEN PyNone ELSE v
\* dict.get(key, default)
GetDefault(v, default) == IF v.t = "missing" THEN default ELSE v
\* p["price"].get("value") on a dict-shaped price
DictValue(v) == Get(PyVal(v.vt, "none", v.n, v.s))

\* Python truthiness: `not v`
Falsy(v) ==
    \/ v.t \in {"missing", "none"}
    \/ v.t \in {"num", "bool"} /\ v.n = 0
    \/ v.t = "str" /\ v.s = <<>>
    \/ v.t = "dict" /\ v.vt = "missing"

DigitChars == {"0", "1", "2", "3", "4", "5", "6", "7", "8", "9"}

DigitVal(c) ==
    CASE c = "0" -> 0 [] c = "1" -> 1 [] c = "2" -> 2 [] c = "3" -> 3
      [] c = "4" -> 4 [] c = "5" -> 5 [] c = "6" -> 6 [] c = "7" -> 7
      [] c = "8" -> 8 [] c = "9" -> 9

AllDigits(s) == \A i \in 1..Len(s) : s[i] \in DigitChars

RECURSIVE DigitsVal(_)
DigitsVal(s) ==
    IF s = <<>> THEN 0
    ELSE 10 * DigitsVal(SubSeq(s, 1, Len(s) - 1)) + DigitVal(s[Len(s)])

\* float(s) for a decimal literal with at most two decimals, in hundredths;
\* ParseError stands for the ValueError float() raises on anything else
\* ("$4.99", "abc", "").  Literals with a sign, an exponent or more than two
\* decimals are outside the strings the model feeds it.
ParseError == PyVal("err", "none", 0, <<>>)

ParseFloat(s) ==
    LET dots == {i \in 1..Len(s) : s[i] = "."}
    IN  IF s = <<>> \/ Cardinality(dots) > 1 THEN ParseError
        ELSE IF dots = {} THEN
            IF AllDigits(s) THEN PyNum(100 * DigitsVal(s)) ELSE ParseError
        ELSE
            LET k == CHOOSE i \in dots : TRUE
                ip == SubSeq(s, 1, k - 1)
                fp == SubSeq(s, k + 1, Len(s))
            IN  IF /\ AllDigits(ip) /\ AllDigits(fp)
                   /\ Len(ip) + Len(fp) >= 1 /\ Len(fp) <= 2
                THEN PyNum(100 * DigitsVal(ip)
                           + (IF Len(fp) = 1 THEN 10 ELSE 1) * DigitsVal(fp))
                ELSE ParseError

\* pd.to_numeric(column, errors='coerce') on one cell
to_numeric(v) ==
    CASE v.t \in {"num", "bool"} -> PyNum(v.n)
      [] v.t = "str" ->
            (LET f == ParseFloat(v.s) IN IF f.t = "err" THEN PyNone ELSE f)
      [] OTHER -> PyNone

----------------------------------------------------------------------------
(* Exact arithmetic *)

Max(a, b) == IF a >= b THEN a ELSE b
Min(a, b) == IF a <= b THEN a ELSE b

\* Series.clip(lower=lo) on one cell
clip_lower(x, lo) == Max(x, lo)

\* round(a / b) to the nearest integer, ties to even; b > 0
RoundDiv(a, b) ==
    LET q == a \div b
        r == a % b
    IN  IF 2 * r < b THEN q
        ELSE IF 2 * r > b THEN q + 1
        ELSE IF q % 2 = 0 THEN q ELSE q + 1

Rat(n, d) == [nan |-> FALSE, num |-> n, den |-> d]
RatNaN == [nan |-> TRUE, num |-> 0, den |-> 1]

RECURSIVE SumSeq(_)
SumSeq(s) == IF s = <<>> THEN 0 ELSE Head(s) + SumSeq(Tail(s))

RECURSIVE SetToSortedSeq(_)
SetToSortedSeq(S) ==
    IF S = {} THEN <<>>
    ELSE LET m == CHOOSE x \in S : \A y \in S : x <= y
         IN  <<m>> \o SetToSortedSeq(S \ {m})

\* the rows of t at the row numbers idx, in that order
take(t, idx) == [k \in 1..Len(idx) |-> t[idx[k]]]

SeqsUpTo(S, n) == UNION {[1..k -> S] : k \in 0..n}

----------------------------------------------------------------------------
(* Text *)

Chars_Category ==
    <<"P", "e", "a", "n", "u", "t", " ", "/", " ",
      "N", "u", "t", " ", "B", "u", "t", "t", "e", "r">>
Chars_Unknown == <<"U", "n", "k", "n", "o", "w", "n">>

----------------------------------------------------------------------------
(* agent.py: generate_synthetic_campaign_data (enrich) *)

\* Series.mean() of a price column: NaN cells are skipped, and the mean of no
\* cells is NaN
mean(prices) ==
    LET present == SetToSortedSeq({i \in 1..Len(prices) : prices[i].t = "num"})
    IN  IF present = <<>> THEN RatNaN
        ELSE Rat(SumSeq([k \in 1..Len(present) |-> prices[present[k]].n]),
                 Len(present))

\* df.groupby("category"): the row numbers of each group
groupby_category(t) ==
    [c \in {t[i].category : i \in 1..Len(t)} |->
        SetToSortedSeq({j \in 1..Len(t) : t[j].category = c})]

\* line 41 without the `- 1`
competitor_count_with_self(t, members) ==
    clip_lower(Cardinality({k \in 1..Len(members) :
                               t[members[k]].product_id.t # "none"}), 0)

\* groupby("category")["product_id"].transform("count") - 1, clipped at 0
\* (lines 41-42): count is the number of non-null identifiers of the group
competitor_count(t, members) ==
    clip_lower(Cardinality({k \in 1..Len(members) :
                               t[members[k]].product_id.t # "none"}) - 1, 0)

\* groupby("category")["price"].transform("mean"), NaN filled with the mean
\* of the whole column (lines 45-46); prices is the coerced price column
avg_competitor_price(prices, members, whole_mean) ==
    LET m == mean([k \in 1..Len(members) |-> prices[members[k]]])
    IN  IF m.nan THEN whole_mean ELSE m

\* line 38 and line 147
sales_proxy(search_position) ==
    Rat(SalesProxyScale, clip_lower(search_position, MinPosition))

\* line 50 with the price required to be positive
pvm_mask_positive_price(price, avg) ==
    price.t = "num" /\ price.n > 0 /\ ~avg.nan /\ avg.num > 0

\* line 50: the rows price_vs_market is computed for
pvm_mask(price, avg) == price.t = "num" /\ ~avg.nan /\ avg.num > 0

\* lines 49-54, in hundredths of a percent:
\* ((price - avg) / avg * 100).round(2) with avg = num/den
price_vs_market(price, avg) ==
    IF pvm_mask(price, avg)
    THEN RoundDiv(10000 * (price.n * avg.den - avg.num), avg.num)
    ELSE 0

\* lines 33-54 on the rows keep of t (all of them in the code)
enrich_rows(t, keep) ==
    LET kept == take(t, keep)
        prices == [i \in 1..Len(kept) |-> to_numeric(kept[i].price)]
        groups == groupby_category(kept)
        whole_mean == mean(prices)
        count == [c \in DOMAIN groups |-> competitor_count(kept, groups[c])]
        avg == [c \in DOMAIN groups |->
                   avg_competitor_price(prices, groups[c], whole_mean)]
    IN  [i \in 1..Len(kept) |->
            [price |-> prices[i],
             sales_proxy |-> sales_proxy(kept[i].search_position),
             competitor_count |-> count[kept[i].category],
             avg_competitor_price |-> avg[kept[i].category],
             price_vs_market |->
                 price_vs_market(prices[i], avg[kept[i].category])] @@ kept[i]]

\* enrich after a dropna on the coerced price
generate_dropping_unpriced(t) ==
    enrich_rows(t, SetToSortedSeq({i \in 1..Len(t) : to_numeric(t[i].price).t = "num"}))

\* lines 27-56
generate_synthetic_campaign_data(t) ==
    enrich_rows(t, [i \in 1..Len(t) |-> i])

----------------------------------------------------------------------------
(* agent.py: fetch_google_shopping_peanut_data *)

\* one raw record of "shopping_results": the provider's keys
RawRecord(product_id, title, source, price, rating, reviews, position, sponsored) ==
    [product_id |-> product_id, title |-> title, source |-> source,
     price |-> price, rating |-> rating, reviews |-> reviews,
     position |-> position, sponsored |-> sponsored]

\* line 105 with `and` for `or`
skipped_if_both_missing(p) == Falsy(Get(p.product_id)) /\ Falsy(Get(p.title))

\* line 105: the record is skipped
skipped(p) == Falsy(Get(p.product_id)) \/ Falsy(Get(p.title))

\* lines 108-118
extract_price(p) ==
    LET v == Get(p.price)
    IN  CASE v.t = "dict" -> DictValue(v)
          [] v.t \in {"num", "bool"} -> v
          [] v.t = "str" ->
                (LET f == ParseFloat(v.s) IN IF f.t = "err" THEN PyNone ELSE f)
          [] OTHER -> PyNone

\* lines 120-137: the dict appended for a record that is not skipped
product_of(p) ==
    LET reviews == Get(p.reviews)
        position == GetDefault(p.position, PyNum(DefaultPosition))
    IN  [product_id |-> Get(p.product_id),
         title |-> Get(p.title),
         brand |-> GetDefault(p.source, PyStr(Chars_Unknown)),
         category |-> Chars_Category,
         price |-> extract_price(p),
         list_price |-> PyNone,
         rating |-> Get(p.rating),
         review_count |-> IF Falsy(reviews) THEN PyNum(0) ELSE reviews,
         search_position |->
             IF Falsy(position) THEN PyNum(DefaultPosition) ELSE position,
         is_sponsored |-> GetDefault(p.sponsored, PyBool(FALSE)).n]

\* the loop with rows of an identifier already seen dropped
RECURSIVE normalize_unique(_, _)
normalize_unique(results, seen) ==
    IF results = <<>> THEN <<>>
    ELSE LET p == Head(results)
             drop == skipped(p) \/ Get(p.product_id) \in seen
         IN  (IF drop THEN <<>> ELSE <<product_of(p)>>)
             \o normalize_unique(Tail(results),
                                 IF drop THEN seen ELSE seen \cup {Get(p.product_id)})

normalize_drop_duplicates(results) == normalize_unique(results, {})

\* lines 99-137: the loop over results
RECURSIVE normalize(_)
normalize(results) ==
    IF results = <<>> THEN <<>>
    ELSE (IF skipped(Head(results)) THEN <<>> ELSE <<product_of(Head(results))>>)
         \o normalize(Tail(results))

\* fillna(d).astype(int) on one cell
fillna_int(v, d) == IF v.t \in {"num", "bool"} THEN v.n ELSE d

\* lines 145-152: base metrics and numeric types
base_metrics(prods) ==
    [i \in 1..Len(prods) |->
        LET position == fillna_int(prods[i].search_position, DefaultPosition)
        IN  [discount_pct |-> 0,
             search_position |-> position,
             sales_proxy |-> sales_proxy(position),
             rating |-> to_numeric(prods[i].rating),
             review_count |-> fillna_int(to_numeric(prods[i].review_count), 0),
             price |-> to_numeric(prods[i].price)] @@ prods[i]]

\* The provider's answer: outcome is "ok" (status 200, a JSON object),
\* "non200", "exception" (requests.get or resp.json() raises) or "not_object"
\* (status 200 and valid JSON that is no object, so data.get raises past the
\* try block of lines 76-91).
Response(outcome, results) == [outcome |-> outcome, shopping_results |-> results]

\* lines 62-157.  raised: an exception leaves the function.
fetch_google_shopping_peanut_data(r) ==
    CASE r.outcome \in {"non200", "exception"} ->
            [raised |-> FALSE, products |-> <<>>, df |-> <<>>]
      [] r.outcome = "not_object" ->
            [raised |-> TRUE, products |-> <<>>, df |-> <<>>]
      [] OTHER ->
            IF r.shopping_results = <<>>
            THEN [raised |-> FALSE, products |-> <<>>, df |-> <<>>]
            ELSE LET prods == normalize(r.shopping_results)
                 IN  [raised |-> FALSE, products |-> prods,
                      df |-> IF prods = <<>> THEN <<>>
                             ELSE generate_synthetic_campaign_data(
                                      base_metrics(prods))]

----------------------------------------------------------------------------
(* pandas: nlargest *)

\* the indices of S by key descending, equal keys in index order (a stable
\* sort, kind="mergesort")
StableDesc(S, keys) ==
    LET rank(i) == Cardinality({j \in S : keys[j] > keys[i]
                                          \/ (keys[j] = keys[i] /\ j < i)}) + 1
    IN  [k \in 1..Cardinality(S) |-> CHOOSE i \in S : rank(i) = k]

\* every order of S by key descending: what a sort that is not stable
\* (sort_values' default kind="quicksort") may return
RECURSIVE DescOrders(_, _)
DescOrders(S, keys) ==
    IF S = {} THEN {<<>>}
    ELSE UNION {{<<i>> \o rest : rest \in DescOrders(S \ {i}, keys)} :
                i \in {i \in S : \A j \in S : keys[i] >= keys[j]}}

\* Series.head(n)
head(s, n) == SubSeq(s, 1, Min(n, Len(s)))

\* DataFrame.nlargest(n, column), keep="first", as the row numbers it returns
\* (pandas/core/methods/selectn.py, pandas >= 1.3): keys is the column, nans the
\* rows whose cell is NaN.  With n >= len(frame) the column is sorted by
\* sort_values(ascending=False), NaN last; otherwise the n largest cells are
\* ordered by a stable sort and the NaN rows follow in row order.
nlargest(keys, nans, n) ==
    LET valid == (1..Len(keys)) \ nans
        nan_index == SetToSortedSeq(nans)
    IN  IF n <= 0 THEN {<<>>}
        ELSE IF n >= Len(keys)
        THEN {head(order \o nan_index, n) : order \in DescOrders(valid, keys)}
        ELSE {head(head(StableDesc(valid, keys), n) \o nan_index, n)}

----------------------------------------------------------------------------
(* agent.py: get_top_products *)

RECURSIVE ProdSeq(_)
ProdSeq(s) == IF s = <<>> THEN 1 ELSE Head(s) * ProdSeq(Tail(s))

\* a column of quotients as numerators over one common denominator, which
\* are ordered as the quotients are
over_common_denominator(col) ==
    LET d == ProdSeq([i \in 1..Len(col) |-> col[i].den])
    IN  [i \in 1..Len(col) |-> col[i].num * (d \div col[i].den)]

\* line 171: df.sort_values("sales_proxy", ascending=False), as the orders of
\* the row numbers it may return: the default kind="quicksort" is not stable
sort_values_sales_proxy(t) ==
    DescOrders(1..Len(t),
               over_common_denominator([i \in 1..Len(t) |-> t[i].sales_proxy]))

\* lines 165-185: the tool's outcomes for the argument n >= 0.  kind is
\* "raised" (the fetch raised), "none" ("No products found ...") or "rows"
\* (one line per row of the sorted, truncated table).
get_top_products(r, n) ==
    LET f == fetch_google_shopping_peanut_data(r)
        out(kind, top) == [kind |-> kind, n |-> n,
                           top_products |-> top, fetched |-> f]
    IN  IF f.raised THEN {out("raised", <<>>)}
        ELSE IF f.df = <<>> THEN {out("none", <<>>)}
        ELSE {out("rows", take(f.df, head(order, n))) :
                 order \in sort_values_sales_proxy(f.df)}

----------------------------------------------------------------------------
(* agent.py: product_recommendation *)

UpperCase == <<"A", "B", "C", "D", "E", "F", "G", "H", "I", "J", "K", "L", "M",
               "N", "O", "P", "Q", "R", "S", "T", "U", "V", "W", "X", "Y", "Z">>
LowerCase == <<"a", "b", "c", "d", "e", "f", "g", "h", "i", "j", "k", "l", "m",
               "n", "o", "p", "q", "r", "s", "t", "u", "v", "w", "x", "y", "z">>

\* str.lower() on the ASCII letters
ToLower ==
    [c \in {UpperCase[k] : k \in 1..Len(UpperCase)} |->
        LowerCase[CHOOSE k \in 1..Len(UpperCase) : UpperCase[k] = c]]

lower(s) ==
    [i \in 1..Len(s) |-> IF s[i] \in DOMAIN ToLower THEN ToLower[s[i]] ELSE s[i]]

\* Series.str.contains(pat, case=False, na=False) on one cell, for a pattern
\* without regular-expression metacharacters
str_contains(text, pat) ==
    LET lt == lower(text)
        lp == lower(pat)
    IN  \E k \in 0..(Len(lt) - Len(lp)) : SubSeq(lt, k + 1, k + Len(lp)) = lp

\* t[mask]
filter(t, mask) == take(t, SetToSortedSeq(mask))

\* line 231
review_floor(r) == r.review_count >= MinReviews

\* lines 237-240, as the numerator of the score over 100 * max_reviews:
\* rating / 5 * 70 + review_count / max_reviews * 30, rating in hundredths
score_key(r, max_reviews) ==
    14 * (IF r.rating.t = "num" THEN r.rating.n ELSE 0) * max_reviews
    + 3000 * r.review_count

max_review_count(t) ==
    CHOOSE m \in {t[i].review_count : i \in 1..Len(t)} :
        \A i \in 1..Len(t) : t[i].review_count <= m

\* lines 234 and 241: top_products
nlargest_rating(t) ==
    {take(t, idx) :
        idx \in nlargest([i \in 1..Len(t) |-> t[i].rating.n],
                         {i \in 1..Len(t) : t[i].rating.t # "num"}, TopK)}

nlargest_score(t) ==
    LET m == max_review_count(t)
        scored == [i \in 1..Len(t) |->
                      [score |-> Rat(score_key(t[i], m), 100 * m)] @@ t[i]]
    IN  {take(scored, idx) :
            idx \in nlargest([i \in 1..Len(scored) |-> scored[i].score.num], {}, TopK)}

\* lines 224-241 with the fallback of line 234 taken from the floored set
recommend_within_floor(table, category) ==
    LET matched == filter(table, {i \in 1..Len(table) : str_contains(table[i].category, category)})
        category_df == IF matched = <<>> THEN table ELSE matched
        floored == filter(category_df, {i \in 1..Len(category_df) : review_floor(category_df[i])})
    IN  IF floored = <<>> THEN nlargest_rating(floored)
        ELSE nlargest_score(floored)

\* lines 224-241: the outcomes for top_products, given the fetched table
recommend(table, category) ==
    LET matched == filter(table, {i \in 1..Len(table) : str_contains(table[i].category, category)})
        category_df == IF matched = <<>> THEN table ELSE matched
        floored == filter(category_df, {i \in 1..Len(category_df) : review_floor(category_df[i])})
    IN  IF floored = <<>> THEN nlargest_rating(table)
        ELSE nlargest_score(floored)

\* lines 217-254: the tool's outcomes.  kind is "raised" (the fetch raised),
\* "none" ("No products available.") or "rows" (the header line naming the
\* category and one line per row of top_products).
product_recommendation(r, category) ==
    LET f == fetch_google_shopping_peanut_data(r)
        out(kind, top) == [kind |-> kind, category |-> category,
                           top_products |-> top, fetched |-> f]
    IN  IF f.raised THEN {out("raised", <<>>)}
        ELSE IF f.df = <<>> THEN {out("none", <<>>)}
        ELSE {out("rows", top) : top \in recommend(f.df, category)}

----------------------------------------------------------------------------
(* promotions.py: detect_promotions *)

FlashSaleOver == 30
DiscountOver == 15

\* float(x) raises: a TypeError on None, a ValueError on a string that is no
\* number
float_raises(v) ==
    \/ v.t \in {"missing", "none", "dict"}
    \/ v.t = "str" /\ ParseFloat(v.s).t = "err"

\* float(x), in hundredths
float(v) == IF v.t = "str" THEN ParseFloat(v.s).n ELSE v.n

\* line 42 with `<=` for `<`
price_not_risen(prev_price, curr_price) == curr_price <= prev_price

\* line 42
price_dropped(prev_price, curr_price) == curr_price < prev_price

\* lines 45-50 with `>=` for `>`
tactic_of_inclusive(prev_price, curr_price) ==
    IF 100 * (prev_price - curr_price) >= FlashSaleOver * prev_price
    THEN "FLASH_SALE"
    ELSE IF 100 * (prev_price - curr_price) >= DiscountOver * prev_price
    THEN "DISCOUNT"
    ELSE "MINOR_DISCOUNT"

\* lines 43-50: discount_percent = (prev - curr) / prev * 100 is compared
\* unrounded
tactic_of(prev_price, curr_price) ==
    IF 100 * (prev_price - curr_price) > FlashSaleOver * prev_price
    THEN "FLASH_SALE"
    ELSE IF 100 * (prev_price - curr_price) > DiscountOver * prev_price
    THEN "DISCOUNT"
    ELSE "MINOR_DISCOUNT"

\* lines 52-58; discount_percent is 'discount_%', round(discount_percent, 1),
\* in tenths of a percent
promotion(point, prev_price, curr_price) ==
    [date |-> point.date,
     price_before |-> prev_price,
     price_during |-> curr_price,
     discount_percent |-> RoundDiv(1000 * (prev_price - curr_price), prev_price),
     tactic |-> tactic_of(prev_price, curr_price)]

\* the iteration i of the loop raises: a float() fails, or prev_price is 0 and
\* the division of line 43 is reached
iteration_raises(prices, i) ==
    \/ float_raises(prices[i - 1].price)
    \/ float_raises(prices[i].price)
    \/ /\ float(prices[i - 1].price) = 0
       /\ price_dropped(0, float(prices[i].price))

\* lines 38-58: the events of iterations first..Len(prices)
RECURSIVE promotions_from(_, _)
promotions_from(prices, i) ==
    IF i > Len(prices) THEN <<>>
    ELSE LET prev_price == float(prices[i - 1].price)
             curr_price == float(prices[i].price)
         IN  (IF price_dropped(prev_price, curr_price)
              THEN <<promotion(prices[i], prev_price, curr_price)>>
              ELSE <<>>)
             \o promotions_from(prices, i + 1)

\* The argument: shape is "none" (None), "empty" ({}), "nokey" (a dict without
\* the key 'price_history') or "series" (a dict holding the list).
History(shape, points) == [shape |-> shape, price_history |-> points]

\* line 32: `not price_history`
no_history(h) == h.shape \in {"none", "empty"}

\* detect_promotions reading the first point's price before the loop
detect_promotions_reading_first(h) ==
    IF no_history(h) THEN [raised |-> FALSE, events |-> <<>>]
    ELSE LET prices == IF h.shape = "nokey" THEN <<>> ELSE h.price_history
         IN  IF \/ prices = <<>>
                \/ float_raises(prices[1].price)
                \/ \E i \in 2..Len(prices) : iteration_raises(prices, i)
             THEN [raised |-> TRUE, events |-> <<>>]
             ELSE [raised |-> FALSE, events |-> promotions_from(prices, 2)]

\* lines 30-60
detect_promotions(h) ==
    IF no_history(h) THEN [raised |-> FALSE, events |-> <<>>]
    ELSE LET prices == IF h.shape = "nokey" THEN <<>> ELSE h.price_history
         IN  IF \E i \in 2..Len(prices) : iteration_raises(prices, i)
             THEN [raised |-> TRUE, events |-> <<>>]
             ELSE [raised |-> FALSE, events |-> promotions_from(prices, 2)]

NoPromotions == [raised |-> FALSE, events |-> <<>>]

\* The price provider's answer to requests.get: outcome is "ok" (status 200
\* and a JSON body), "not_json" (status 200 and a body response.json()
\* rejects), "non200" or "exception" (the request raised or timed out).  The
\* body is a History; its shape "list" is a non-empty JSON array, a body that
\* is JSON and no object.
PriceResponse(outcome, body) == [outcome |-> outcome, body |-> body]

\* promotions.py lines 6-27: api_key is whether a key is configured; data is
\* what the function returns, None being History("none", <<>>)
get_price_history(api_key, r) ==
    IF ~api_key THEN [requests |-> 0, data |-> History("none", <<>>)]
    ELSE [requests |-> 1,
          data |-> IF r.outcome = "ok" THEN r.body
                   ELSE History("none", <<>>)]

RECURSIVE MaxSeq(_)
MaxSeq(s) == IF Len(s) = 1 THEN s[1] ELSE Max(Head(s), MaxSeq(Tail(s)))

RECURSIVE MinSeq(_)
MinSeq(s) == IF Len(s) = 1 THEN s[1] ELSE Min(Head(s), MinSeq(Tail(s)))

\* the column 'discount_%' of the frame built from the events
discounts(events) == [k \in 1..Len(events) |-> events[k].discount_percent]

StatisticsNone == [t |-> "none"]

\* get_promotion_statistics answering an empty frame with zeros
get_promotion_statistics_zero(events) ==
    IF events = <<>>
    THEN [t |-> "dict", total |-> 0, avg_discount |-> Rat(0, 1),
          max_discount |-> 0, min_discount |-> 0]
    ELSE [t |-> "dict",
          total |-> Len(events),
          avg_discount |-> Rat(SumSeq(discounts(events)), Len(events)),
          max_discount |-> MaxSeq(discounts(events)),
          min_discount |-> MinSeq(discounts(events))]

\* promotions.py lines 63-74 on the frame of the events; None is
\* StatisticsNone, the discounts are in tenths of a percent
get_promotion_statistics(events) ==
    IF events = <<>> THEN StatisticsNone
    ELSE [t |-> "dict",
          total |-> Len(events),
          avg_discount |-> Rat(SumSeq(discounts(events)), Len(events)),
          max_discount |-> MaxSeq(discounts(events)),
          min_discount |-> MinSeq(discounts(events))]

\* app.py line 359: `price_data and price_data.get('price_history')`, for a
\* price_data that is None or a dict
has_price_history(price_data) ==
    /\ price_data.shape = "series"
    /\ price_data.price_history # <<>>

\* the exceptions that end a script run, by the place that raises them
FetchFault == "AttributeError at agent.py:93"
LookupFault == "AttributeError at app.py:359"
DetectFault == "exception at promotions.py:39-43"

\* app.py lines 359-441, the display of a lookup's price_data: fault is the
\* exception that ends the script run ("none" if it completes), promotions
\* what detect_promotions returned, shown the statistics of lines 400-407
\* (StatisticsNone when the page shows none).  A non-empty list for
\* price_data passes `price_data and` and has no .get.
show_promotions(price_data) ==
    IF price_data.shape = "list"
    THEN [fault |-> LookupFault, promotions |-> NoPromotions,
          shown |-> StatisticsNone]
    ELSE IF ~has_price_history(price_data)
    THEN [fault |-> "none", promotions |-> NoPromotions,
          shown |-> StatisticsNone]
    ELSE LET detected == detect_promotions(price_data)
         IN  IF detected.raised
             THEN [fault |-> DetectFault, promotions |-> detected,
                   shown |-> StatisticsNone]
             ELSE IF detected.events = <<>>
             THEN [fault |-> "none", promotions |-> detected,
                   shown |-> StatisticsNone]
             ELSE [fault |-> "none", promotions |-> detected,
                   shown |-> [t |-> "dict",
                              total |-> Len(detected.events),
                              avg_discount |->
                                  Rat(SumSeq(discounts(detected.events)),
                                      Len(detected.events)),
                              max_discount |->
                                  MaxSeq(discounts(detected.events))]]

----------------------------------------------------------------------------
(* The listing pipeline: inputs *)

Str1(c) == PyStr(<<c>>)

\* Raw records exercising the normalisation: identifiers and titles that are
\* absent or empty, a repeated identifier, every price shape, and positions
\* that are absent, null, 0, negative and positive.
RawRecords ==
    { RawRecord(Str1("A"), Str1("X"), Str1("J"), PyStr(<<"4", ".", "9", "9">>),
                PyNum(450), PyNum(10), PyNum(1), Missing),
      RawRecord(Str1("B"), Str1("Y"), Missing, PyNum(1000),
                Missing, Missing, PyNum(2), PyBool(TRUE)),
      RawRecord(Str1("A"), Str1("Z"), Str1("K"), PyDict(PyNum(750)),
                PyNum(300), PyNum(3), PyNum(0), PyBool(FALSE)),
      RawRecord(Missing, Str1("X"), Str1("J"), PyNum(500),
                PyNum(400), PyNum(6), PyNum(1), Missing),
      RawRecord(PyStr(<<>>), Str1("Y"), Str1("J"), PyNum(500),
                PyNum(400), PyNum(6), PyNum(2), Missing),
      RawRecord(Str1("C"), Missing, Str1("K"), PyNum(0),
                PyNone, PyNum(0), PyNum(3), Missing),
      RawRecord(Str1("C"), PyStr(<<>>), Str1("K"), PyNum(250),
                PyNum(500), PyNum(5), Missing, Missing),
      RawRecord(Str1("C"), Str1("W"), PyNone, PyStr(<<"$", "4", ".", "9", "9">>),
                PyNum(500), PyNum(0), Missing, Missing),
      RawRecord(Str1("D"), Str1("V"), Str1("K"), Missing,
                PyNum(450), PyNum(7), PyNum(-3), Missing),
      RawRecord(Str1("E"), Str1("U"), Str1("J"), PyDict(Missing),
                PyNone, PyNone, PyNone, Missing),
      RawRecord(Str1("F"), Str1("T"), Str1("J"), PyDict(PyStr(<<"1", "0">>)),
                PyNum(350), PyNum(12), PyNum(2), Missing) }

\* Well-formed answers for the agent tools.  The i-th record carries the i-th
\* identifier, so that rows with equal ratings remain distinguishable; its
\* rating, review count and position are drawn from ToolPayloads: ratings
\* that differ, are equal and are absent, review counts on both sides of the
\* review floor, equal positions.
IdChars == <<"A", "B", "C", "D", "E", "F", "G", "H">>

ToolPayloads ==
    { [rating |-> PyNum(450), reviews |-> PyNum(0), position |-> PyNum(1)],
      [rating |-> PyNum(300), reviews |-> PyNum(3), position |-> PyNum(2)],
      [rating |-> Missing, reviews |-> PyNum(4), position |-> PyNum(2)],
      [rating |-> PyNum(450), reviews |-> PyNum(9), position |-> PyNum(3)] }

ToolResults(payloads) ==
    [i \in 1..Len(payloads) |->
        RawRecord(Str1(IdChars[i]), Str1("X"), Str1("J"), PyNum(500),
                  payloads[i].rating, payloads[i].reviews,
                  payloads[i].position, Missing)]

Failures == {Response(o, <<>>) : o \in {"non200", "exception", "not_object"}}

Responses ==
    Failures \cup {Response("ok", rs) : rs \in SeqsUpTo(RawRecords, MaxResults)}

ToolResponses ==
    Failures
    \cup {Response("ok", ToolResults(ps)) :
             ps \in SeqsUpTo(ToolPayloads, MaxToolResults)}

\* Answers for the ranking of records that reach the review floor: the
\* payloads are a rated record above the floor, an unrated one with the most
\* reviews and a rated one below the floor; two of them share a position.
\* Records built from the same payload have equal scores and equal
\* sales_proxy and differ in their identifiers.
RankPayloads ==
    { [rating |-> PyNum(450), reviews |-> PyNum(9), position |-> PyNum(2)],
      [rating |-> Missing, reviews |-> PyNum(12), position |-> PyNum(1)],
      [rating |-> PyNum(300), reviews |-> PyNum(3), position |-> PyNum(2)] }

RankResponses ==
    {Response("ok", ToolResults(ps)) :
        ps \in SeqsUpTo(RankPayloads, MaxToolResults)}

TopResponses ==
    Failures
    \cup {Response("ok", ToolResults(ps)) :
             ps \in SeqsUpTo(RankPayloads, MaxTopResults)}

\* the category argument: the default "peanut butter", which is no substring
\* of the fetch's category, and "PEANUT", which matches it ignoring case
Chars_Default ==
    <<"p", "e", "a", "n", "u", "t", " ", "b", "u", "t", "t", "e", "r">>
Chars_PEANUT == <<"P", "E", "A", "N", "U", "T">>
Categories == {Chars_Default, Chars_PEANUT}

NoReport == [kind |-> "unset", category |-> <<>>, top_products |-> <<>>]
NoHistory == [shape |-> "none", price_history |-> <<>>]
NoPriceResponse == [outcome |-> "unset"]
NoStatistics == [t |-> "unset"]

----------------------------------------------------------------------------
(* The listing pipeline: specification *)

\* a session in which nothing has happened yet; lines 50-51 and 292-293 of
\* app.py for the snapshot and the history
SessionIdle ==
    /\ session_df = <<>>
    /\ messages = <<>>
    /\ selected = 0
    /\ price_resp = NoPriceResponse
    /\ requests = 0
    /\ fault = "none"
    /\ stats = NoStatistics
    /\ shown = NoStatistics

Idle ==
    /\ SessionIdle
    /\ products = <<>>
    /\ df = <<>>
    /\ prev_df = <<>>
    /\ report = NoReport
    /\ price_history = NoHistory
    /\ promotions = NoPromotions
    /\ pc = "start"

Init == resp \in Responses /\ Idle

\* a call of fetch_google_shopping_peanut_data
Fetch ==
    /\ pc = "start"
    /\ LET f == fetch_google_shopping_peanut_data(resp)
       IN  /\ products' = f.products
           /\ df' = f.df
           /\ pc' = IF f.raised THEN "raised" ELSE "fetched"
    /\ UNCHANGED <<resp, prev_df, report, price_history, promotions, session_vars, stats, shown>>

\* a call of the product_recommendation tool, which fetches for itself
ProductRecommendation ==
    /\ pc = "start"
    /\ \E category \in Categories :
         \E out \in product_recommendation(resp, category) :
            /\ report' = [kind |-> out.kind, category |-> out.category,
                          top_products |-> out.top_products]
            /\ products' = out.fetched.products
            /\ df' = out.fetched.df
            /\ pc' = IF out.kind = "raised" THEN "raised" ELSE "recommended"
    /\ UNCHANGED <<resp, prev_df, price_history, promotions, session_vars, stats, shown>>

Next == Fetch

Spec == Init /\ [][Next]_vars

\* the agent tools, each on a provider answer of its own
InitTools == resp \in ToolResponses /\ Idle

NextTools == ProductRecommendation

SpecTools == InitTools /\ [][NextTools]_vars

\* product_recommendation on records that reach the review floor
InitRank == resp \in RankResponses /\ Idle

NextRank == ProductRecommendation

SpecRank == InitRank /\ [][NextRank]_vars

\* a call of the get_top_products tool, which fetches for itself
GetTopProducts ==
    /\ pc = "start"
    /\ \E n \in 0..MaxTopN :
         \E out \in get_top_products(resp, n) :
            /\ report' = [kind |-> out.kind, n |-> out.n,
                          top_products |-> out.top_products]
            /\ products' = out.fetched.products
            /\ df' = out.fetched.df
            /\ pc' = IF out.kind = "raised" THEN "raised" ELSE "ranked"
    /\ UNCHANGED <<resp, prev_df, price_history, promotions, session_vars, stats, shown>>

InitTop == resp \in TopResponses /\ Idle

NextTop == GetTopProducts

SpecTop == InitTop /\ [][NextTop]_vars

----------------------------------------------------------------------------
(* Enrich applied to a table, and again to its own output *)

Chars_Jam == <<"J", "a", "m">>

TableRow(id, category, price, search_position) ==
    [product_id |-> Str1(id), category |-> category,
     price |-> price, search_position |-> search_position]

\* Rows of normalized tables: two categories; prices that are absent, zero,
\* positive, numeric strings and strings that are no number;
\* positions below and above 1.
TableRows ==
    { TableRow("A", Chars_Category, PyNum(499), 1),
      TableRow("B", Chars_Category, PyNum(1000), 2),
      TableRow("C", Chars_Category, PyNum(0), 0),
      TableRow("D", Chars_Category, PyNone, 3),
      TableRow("E", Chars_Jam, PyStr(<<"4", ".", "9", "9">>), -3),
      TableRow("F", Chars_Jam, PyStr(<<"$", "4", ".", "9", "9">>), 1000),
      TableRow("G", Chars_Jam, PyNum(0), 5),
      TableRow("H", Chars_Jam, PyNone, 2) }

InitEnrich ==
    /\ df \in SeqsUpTo(TableRows, MaxRows)
    /\ resp = Response("ok", <<>>)
    /\ products = <<>>
    /\ prev_df = <<>>
    /\ report = NoReport
    /\ price_history = NoHistory
    /\ promotions = NoPromotions
    /\ SessionIdle
    /\ pc = "table"

\* a call of generate_synthetic_campaign_data on the table, then on its output
Enrich ==
    /\ pc \in {"table", "enriched"}
    /\ prev_df' = df
    /\ df' = generate_synthetic_campaign_data(df)
    /\ pc' = IF pc = "table" THEN "enriched" ELSE "reenriched"
    /\ UNCHANGED <<resp, products, report, price_history, promotions, session_vars, stats, shown>>

NextEnrich == Enrich

SpecEnrich == InitEnrich /\ [][NextEnrich]_vars

----------------------------------------------------------------------------
(* Promotion detection *)

\* Prices in hundredths: the drops of 40%, 30%, 20%, 15% and 12%, the drops of
\* 30.02% and 0.04% whose rounded value leaves the tactic's range, a numeric
\* string and a string that is no number.
PointPrices ==
    { PyNum(10000), PyStr(<<"6", "0">>), PyNum(5000), PyNum(4400), PyNum(4000),
      PyNum(3500), PyNum(3400), PyNum(3499), PyNum(2500), PyNum(2499),
      PyStr(<<"N", "/", "A">>) }

\* the i-th point is dated i
Points(prices) == [i \in 1..Len(prices) |-> [date |-> i, price |-> prices[i]]]

Histories ==
    {History(shape, <<>>) : shape \in {"none", "empty", "nokey"}}
    \cup {History("series", Points(ps)) : ps \in SeqsUpTo(PointPrices, MaxPoints)}

InitPromo ==
    /\ price_history \in Histories
    /\ resp = Response("ok", <<>>)
    /\ products = <<>>
    /\ df = <<>>
    /\ prev_df = <<>>
    /\ report = NoReport
    /\ promotions = NoPromotions
    /\ SessionIdle
    /\ pc = "start"

\* a call of detect_promotions
DetectPromotions ==
    /\ pc = "start"
    /\ promotions' = detect_promotions(price_history)
    /\ pc' = "detected"
    /\ UNCHANGED <<resp, products, df, prev_df, report, price_history, session_vars, stats, shown>>

\* a call of get_promotion_statistics on the frame of the detected events
PromotionStatistics ==
    /\ pc = "detected"
    /\ ~promotions.raised
    /\ stats' = get_promotion_statistics(promotions.events)
    /\ pc' = "summarized"
    /\ UNCHANGED <<resp, products, df, prev_df, report, price_history,
                   promotions, session_vars, shown>>

\* the page's display of a price_data, which detects for itself
ShowPromotions ==
    /\ pc = "start"
    /\ LET page == show_promotions(price_history)
       IN  /\ promotions' = page.promotions
           /\ shown' = page.shown
           /\ fault' = page.fault
    /\ pc' = "shown"
    /\ UNCHANGED <<resp, products, df, prev_df, report, price_history,
                   session_df, messages, selected, price_resp, requests, stats>>

NextPromo == DetectPromotions \/ PromotionStatistics \/ ShowPromotions

SpecPromo == InitPromo /\ [][NextPromo]_vars

----------------------------------------------------------------------------
(* app.py: a UI session.  Every interaction runs the script from top to    *)
(* bottom: the refresh (lines 53-59), and, if the snapshot is not empty,   *)
(* the product selector (lines 243-256), the chat (lines 290-335) and the  *)
(* price lookup (lines 343-441).                                           *)

\* lines 245-247: the distinct rows of the selector's columns, in the order
\* of their first occurrence
option_of(r) ==
    [product_id |-> r.product_id, title |-> r.title, brand |-> r.brand,
     rating |-> r.rating, review_count |-> r.review_count]

product_options(t) ==
    LET first == {i \in 1..Len(t) :
                     \A j \in 1..(i - 1) : option_of(t[j]) # option_of(t[i])}
    IN  [k \in 1..Cardinality(first) |-> option_of(t[SetToSortedSeq(first)[k]])]

\* lines 305-313: the agent's input, the prompt placed behind the selected
\* product
context_prompt(selected_prod, prompt) ==
    [product |-> selected_prod, prompt |-> prompt]

Chars_insufficient_quota ==
    <<"i", "n", "s", "u", "f", "f", "i", "c", "i", "e", "n", "t", "_",
      "q", "u", "o", "t", "a">>
Chars_QuotaExceeded ==
    <<"Q", "u", "o", "t", "a", " ", "E", "x", "c", "e", "e", "d", "e", "d">>
Chars_ErrorPrefix == <<"E", "r", "r", "o", "r", ":", " ">>

\* What the agent call of line 322 does: kind is "returned" (content is the
\* result's content) or "raised" (error_msg is str(e)).
AgentOutcome(kind, content, error_msg) ==
    [kind |-> kind, content |-> content, error_msg |-> error_msg]

\* lines 321-332: the assistant's entry
answer_of(outcome) ==
    IF outcome.kind = "returned" THEN outcome.content
    ELSE IF str_contains(outcome.error_msg, Chars_insufficient_quota)
         THEN Chars_QuotaExceeded
         ELSE Chars_ErrorPrefix \o outcome.error_msg

\* the chat letting the agent's exception end the script run
chat_turn_reraising(msgs, prompt, outcome) ==
    IF outcome.kind = "returned"
    THEN msgs \o <<[role |-> "user", content |-> prompt],
                   [role |-> "assistant", content |-> outcome.content]>>
    ELSE msgs \o <<[role |-> "user", content |-> prompt]>>

\* lines 315-335: the history after a submitted prompt
chat_turn(msgs, prompt, outcome) ==
    msgs \o <<[role |-> "user", content |-> prompt],
              [role |-> "assistant", content |-> answer_of(outcome)]>>

\* Inputs of a session
SessionRecords ==
    { RawRecord(Str1("A"), Str1("X"), Str1("J"), PyNum(499),
                PyNum(450), PyNum(10), PyNum(1), Missing),
      RawRecord(Str1("B"), Str1("Y"), Missing, PyNone,
                Missing, Missing, PyNum(2), PyBool(TRUE)) }

SessionResponses ==
    Failures
    \cup {Response("ok", rs) : rs \in SeqsUpTo(SessionRecords, MaxSessionResults)}

Prompts == {<<"b", "o", "g", "o">>}

AgentOutcomes ==
    { AgentOutcome("returned", <<"o", "k">>, <<>>),
      AgentOutcome("raised", <<>>,
                   <<"4", "2", "9", " ", "I", "n", "s", "u", "f", "f", "i", "c",
                     "i", "e", "n", "t", "_", "Q", "u", "o", "t", "a">>),
      AgentOutcome("raised", <<>>, <<"t", "i", "m", "e", "o", "u", "t">>) }

\* the price provider's answers: failures, a body that is a JSON array, a
\* series with a drop of 30.02% and a series whose first price is no number
PriceResponses ==
    { PriceResponse("non200", NoHistory),
      PriceResponse("exception", NoHistory),
      PriceResponse("not_json", NoHistory),
      PriceResponse("ok", History("list", <<>>)),
      PriceResponse("ok", History("series",
                                  Points(<<PyNum(5000), PyNum(3499)>>))),
      PriceResponse("ok", History("series",
                                  Points(<<PyStr(<<"N", "/", "A">>), PyNum(5000)>>))) }

\* the widgets below the refresh button were drawn by the last script run
Rendered == session_df # <<>> /\ fault # FetchFault

\* Lines 61-441 of a script run, given the snapshot and the history the run
\* has reached: with an empty snapshot nothing below the warning of line 68
\* is drawn; otherwise the selector shows sel and the lookup section asks the
\* price provider if an ASIN is entered (pr its answer, NoPriceResponse if
\* none is entered).  before is the number of requests.get calls so far.
Page(sel, pr, before) ==
    IF session_df' = <<>>
    THEN /\ selected' = 0
         /\ price_resp' = NoPriceResponse
         /\ price_history' = NoHistory
         /\ promotions' = NoPromotions
         /\ shown' = StatisticsNone
         /\ requests' = before
         /\ fault' = "none"
    ELSE /\ selected' = sel
         /\ price_resp' = pr
         /\ IF pr = NoPriceResponse
            THEN /\ price_history' = NoHistory
                 /\ promotions' = NoPromotions
                 /\ shown' = StatisticsNone
                 /\ requests' = before
                 /\ fault' = "none"
            ELSE LET got == get_price_history(TRUE, pr)
                     page == show_promotions(got.data)
                 IN  /\ price_history' = got.data
                     /\ promotions' = page.promotions
                     /\ shown' = page.shown
                     /\ requests' = before + got.requests
                     /\ fault' = page.fault

\* the answers the price provider may give in the next script run: one for
\* the ASIN that stays entered, none if the field is empty
NextPriceResponses ==
    IF Rendered /\ price_resp # NoPriceResponse THEN PriceResponses
    ELSE {NoPriceResponse}

\* the selector's row in a run that draws it for the table t
selector_row(t) ==
    IF Rendered /\ selected \in 1..Len(product_options(t)) THEN selected ELSE 1

\* a click on "Refresh market data": lines 53-57, then the page.  A fetch
\* that raises ends the run before line 57 assigns and before anything else
\* is drawn.
Refresh ==
    /\ \E r \in SessionResponses :
         LET f == fetch_google_shopping_peanut_data(r)
         IN  /\ resp' = r
             /\ products' = f.products
             /\ df' = f.df
             /\ messages' = messages
             /\ IF f.raised
                THEN /\ session_df' = session_df
                     /\ selected' = 0
                     /\ price_resp' = NoPriceResponse
                     /\ price_history' = NoHistory
                     /\ promotions' = NoPromotions
                     /\ shown' = StatisticsNone
                     /\ requests' = 1
                     /\ fault' = FetchFault
                ELSE /\ session_df' = f.df
                     /\ \E pr \in NextPriceResponses :
                           Page(selector_row(f.df), pr, 1)
    /\ pc' = "refresh"
    /\ UNCHANGED <<prev_df, report, stats>>

\* a choice in the product selector
SelectProduct ==
    /\ Rendered
    /\ session_df' = session_df
    /\ messages' = messages
    /\ \E sel \in 1..Len(product_options(session_df)) :
         \E pr \in NextPriceResponses : Page(sel, pr, 0)
    /\ pc' = "select"
    /\ UNCHANGED <<resp, products, df, prev_df, report, stats>>

\* a prompt submitted to the chat: lines 301-335 between the selector and
\* the lookup section
ChatPrompt ==
    /\ Rendered
    /\ Len(messages) < 2 * MaxPrompts
    /\ session_df' = session_df
    /\ \E prompt \in Prompts : \E outcome \in AgentOutcomes :
         LET sel == selector_row(session_df)
             input == context_prompt(product_options(session_df)[sel], prompt)
         IN  /\ report' = [kind |-> "agent", input |-> input,
                           prompt |-> prompt, outcome |-> outcome]
             /\ messages' = chat_turn(messages, prompt, outcome)
             /\ \E pr \in NextPriceResponses : Page(sel, pr, 0)
    /\ pc' = "chat"
    /\ UNCHANGED <<resp, products, df, prev_df, stats>>

\* an ASIN entered in the lookup field
LookupAsin ==
    /\ Rendered
    /\ session_df' = session_df
    /\ messages' = messages
    /\ \E pr \in PriceResponses : Page(selector_row(session_df), pr, 0)
    /\ pc' = "lookup"
    /\ UNCHANGED <<resp, products, df, prev_df, report, stats>>

InitSession == resp = Response("ok", <<>>) /\ Idle

NextSession == Refresh \/ SelectProduct \/ ChatPrompt \/ LookupAsin

SpecSession == InitSession /\ [][NextSession]_vars

----------------------------------------------------------------------------
(* Properties of the listing pipeline (Spec) *)

\* a raw field that carries a non-empty text
Carries(v) == v.t = "str" /\ v.s # <<>>

\* the raw records that carry both an identifier and a title, in input order
Identified(raw) ==
    SetToSortedSeq({i \in 1..Len(raw) :
                       Carries(raw[i].product_id) /\ Carries(raw[i].title)})

Fetched == pc = "fetched" /\ resp.outcome = "ok"

\* C1: the normalisation loop outputs exactly the raw records that carry both
\* an identifier and a title, in input order; a record is dropped if and only
\* if its identifier or its title is missing, whatever its other fields hold.
C1_NormalizeKeepsIdentified ==
    Fetched =>
        LET raw == resp.shopping_results
            kept == Identified(raw)
        IN  /\ Len(products) = Len(kept)
            /\ Len(products) <= Len(raw)
            /\ \A k \in 1..Len(products) :
                  /\ products[k].product_id = raw[kept[k]].product_id
                  /\ products[k].title = raw[kept[k]].title
                  /\ Carries(products[k].product_id)
                  /\ Carries(products[k].title)

\* C1 witness: a fetch that dropped a record and kept one whose price is
\* malformed or absent
C1_DroppedAndKept ==
    /\ Fetched
    /\ Len(products) >= 1
    /\ Len(products) < Len(resp.shopping_results)
    /\ \E k \in 1..Len(products) : products[k].price.t = "none"

Occurrences(ids, id) == Cardinality({k \in 1..Len(ids) : ids[k] = id})

\* C2 as stated: no two records of a fetch result share an identifier.
C2_UniqueIdentifiers ==
    pc = "fetched" =>
        \A i, j \in 1..Len(df) : i # j => df[i].product_id # df[j].product_id

\* C2 amended: every record of a fetch result carries an identifier, and an
\* identifier occurs in the result as often as it occurs among the raw records
\* that carry an identifier and a title: rows that repeat a product_id are all
\* kept.
C2_IdentifiersAsReceived ==
    Fetched =>
        LET raw == resp.shopping_results
            kept == Identified(raw)
            received == [k \in 1..Len(kept) |-> raw[kept[k]].product_id]
            returned == [k \in 1..Len(df) |-> df[k].product_id]
        IN  /\ \A k \in 1..Len(df) : Carries(df[k].product_id)
            /\ \A i \in 1..Len(raw) :
                  Occurrences(returned, raw[i].product_id)
                      = Occurrences(received, raw[i].product_id)

\* C2 witness: a fetch result in which two rows share an identifier
C2_RepeatedIdentifier ==
    /\ Fetched
    /\ \E i, j \in 1..Len(df) : i < j /\ df[i].product_id = df[j].product_id

\* C4 as stated: sales_proxy = 1000 / max(p, 1), p the position the provider
\* reports for the record (1000 when it reports none), so that a reported
\* position of 0 or below gives 1000.
C4_SalesProxyOfReportedPosition ==
    Fetched =>
        LET raw == resp.shopping_results
            kept == Identified(raw)
        IN  \A k \in 1..Len(df) :
               LET reported == raw[kept[k]].position
                   p == IF reported.t = "num" THEN reported.n ELSE 1000
               IN  df[k].sales_proxy.num * Max(p, 1) = 1000 * df[k].sales_proxy.den

----------------------------------------------------------------------------
(* Properties of enrich (SpecEnrich) *)

Enriched == pc \in {"enriched", "reenriched"}

Abs(x) == IF x < 0 THEN -x ELSE x

\* v, in hundredths of a percent, is 100 * (price - avg) / avg to the nearest
\* hundredth
IsDeviation(v, price, avg) ==
    2 * Abs(v * avg.num - 10000 * (price.n * avg.den - avg.num)) <= avg.num

\* C3 as stated: price_vs_market is 0 when price or avg_competitor_price is
\* absent or non-positive, and round(100 * (price - avg) / avg, 2) otherwise.
C3_PriceVsMarket ==
    Enriched =>
        \A i \in 1..Len(df) :
            LET r == df[i]
            IN  IF \/ r.price.t # "num" \/ r.price.n <= 0
                   \/ r.avg_competitor_price.nan \/ r.avg_competitor_price.num <= 0
                THEN r.price_vs_market = 0
                ELSE IsDeviation(r.price_vs_market, r.price, r.avg_competitor_price)

\* C3 amended: price_vs_market is 0 when price is absent or
\* avg_competitor_price is absent or non-positive, and
\* round(100 * (price - avg) / avg, 2) otherwise, also for a price that is
\* zero or negative.
C3_PriceVsMarketOfPresentPrice ==
    Enriched =>
        \A i \in 1..Len(df) :
            LET r == df[i]
            IN  IF \/ r.price.t # "num"
                   \/ r.avg_competitor_price.nan \/ r.avg_competitor_price.num <= 0
                THEN r.price_vs_market = 0
                ELSE IsDeviation(r.price_vs_market, r.price, r.avg_competitor_price)

\* C3 witness: a row with a non-positive price and a positive average whose
\* price_vs_market is not 0, beside a row without a price
C3_NonPositivePriceCompared ==
    /\ Enriched
    /\ \E i \in 1..Len(df) :
          /\ df[i].price.t = "num" /\ df[i].price.n <= 0
          /\ ~df[i].avg_competitor_price.nan /\ df[i].avg_competitor_price.num > 0
          /\ df[i].price_vs_market # 0
    /\ \E i \in 1..Len(df) : df[i].price.t = "none" /\ df[i].price_vs_market = 0

\* C5: enrich returns the same number of rows with the same identifiers in the
\* same order, and applied to its own output it leaves price, sales_proxy,
\* competitor_count, avg_competitor_price and price_vs_market unchanged.
C5_EnrichKeepsRowsAndIsIdempotent ==
    /\ Enriched =>
          /\ Len(df) = Len(prev_df)
          /\ \A i \in 1..Len(df) : df[i].product_id = prev_df[i].product_id
    /\ pc = "reenriched" =>
          \A i \in 1..Len(df) :
              /\ df[i].price = prev_df[i].price
              /\ df[i].sales_proxy = prev_df[i].sales_proxy
              /\ df[i].competitor_count = prev_df[i].competitor_count
              /\ df[i].avg_competitor_price = prev_df[i].avg_competitor_price
              /\ df[i].price_vs_market = prev_df[i].price_vs_market

\* C5 witness: enrich applied a second time to a table of two categories, one
\* row without a price and one with a non-zero deviation
C5_Reapplied ==
    /\ pc = "reenriched"
    /\ \E i, j \in 1..Len(df) : df[i].category # df[j].category
    /\ \E i \in 1..Len(df) : df[i].price.t = "none"
    /\ \E i \in 1..Len(df) : df[i].price_vs_market # 0

SameCategory(t, i) == {j \in 1..Len(t) : t[j].category = t[i].category}

\* C6: competitor_count is the number of records of the same category minus
\* one: never negative, 0 for a record alone in its category, 1 for both
\* records of a two-record single-category set.
C6_CompetitorCount ==
    Enriched =>
        /\ \A i \in 1..Len(df) :
              /\ df[i].competitor_count = Cardinality(SameCategory(df, i)) - 1
              /\ df[i].competitor_count >= 0
              /\ SameCategory(df, i) = {i} => df[i].competitor_count = 0
        /\ (Len(df) = 2 /\ df[1].category = df[2].category) =>
              df[1].competitor_count = 1 /\ df[2].competitor_count = 1

\* C6 witness: a record alone in its category beside two that share one
C6_AloneAndShared ==
    /\ pc = "enriched"
    /\ \E i \in 1..Len(df) : SameCategory(df, i) = {i} /\ df[i].competitor_count = 0
    /\ \E i \in 1..Len(df) : df[i].competitor_count = 1

----------------------------------------------------------------------------
(* Properties of promotion detection (SpecPromo) *)

Detected == pc = "detected" /\ price_history.shape = "series"

\* the series is one of prices: every point's price is a number or a decimal
\* string
IsPriceSeries(points) ==
    \A i \in 1..Len(points) : to_numeric(points[i].price).t = "num"

PriceAt(points, i) == to_numeric(points[i].price).n

\* C7: detect_promotions emits exactly one event for each index i with
\* p[i] < p[i-1] and none for any other index, in increasing order of i, the
\* event carrying date[i], price_before = p[i-1] and price_during = p[i].
C7_OneEventPerDrop ==
    (Detected /\ IsPriceSeries(price_history.price_history)) =>
        LET points == price_history.price_history
            drops == SetToSortedSeq({i \in 2..Len(points) :
                                       PriceAt(points, i) < PriceAt(points, i - 1)})
            events == promotions.events
        IN  /\ ~promotions.raised
            /\ Len(events) = Len(drops)
            /\ \A k \in 1..Len(events) :
                  /\ events[k].date = points[drops[k]].date
                  /\ events[k].price_before = PriceAt(points, drops[k] - 1)
                  /\ events[k].price_during = PriceAt(points, drops[k])

\* C7 witness: the series 100, 100, "60" gave one event, dated as the third
\* point, from 100 to 60
C7_OneDropAfterEqual ==
    /\ Detected
    /\ Len(price_history.price_history) = 3
    /\ PriceAt(price_history.price_history, 1) = PriceAt(price_history.price_history, 2)
    /\ Len(promotions.events) = 1
    /\ promotions.events[1].date = 3
    /\ promotions.events[1].price_before = 10000
    /\ promotions.events[1].price_during = 6000

\* C8 as stated: with d the reported discount_percent (rounded to 1 decimal,
\* here in tenths), the tactic is FLASH_SALE iff d > 30, DISCOUNT iff
\* 15 < d <= 30 and MINOR_DISCOUNT iff 0 < d <= 15.
C8_TacticOfReportedDiscount ==
    pc = "detected" =>
        \A k \in 1..Len(promotions.events) :
            LET e == promotions.events[k]
                d == e.discount_percent
            IN  /\ e.tactic = "FLASH_SALE" <=> d > 300
                /\ e.tactic = "DISCOUNT" <=> (150 < d /\ d <= 300)
                /\ e.tactic = "MINOR_DISCOUNT" <=> (0 < d /\ d <= 150)

\* C8 amended: with u = (price_before - price_during) / price_before * 100,
\* the discount before rounding, the tactic is FLASH_SALE iff u > 30, DISCOUNT
\* iff 15 < u <= 30 and MINOR_DISCOUNT iff 0 < u <= 15, and every event has
\* u > 0; the reported discount_percent is u rounded to 1 decimal, so it is
\* at least 0 and may lie outside its tactic's range.
C8_TacticOfUnroundedDiscount ==
    pc = "detected" =>
        \A k \in 1..Len(promotions.events) :
            LET e == promotions.events[k]
                before == e.price_before
                cut == e.price_before - e.price_during
            IN  /\ before > 0 /\ cut > 0
                /\ e.tactic = "FLASH_SALE" <=> 100 * cut > 30 * before
                /\ e.tactic = "DISCOUNT" <=>
                      (100 * cut > 15 * before /\ 100 * cut <= 30 * before)
                /\ e.tactic = "MINOR_DISCOUNT" <=> 100 * cut <= 15 * before
                /\ 2 * Abs(e.discount_percent * before - 1000 * cut) <= before
                /\ e.discount_percent >= 0

\* C8 witness: a drop of 30.02%, a FLASH_SALE reported with 30.0
C8_RoundedOutOfRange ==
    /\ pc = "detected"
    /\ \E k \in 1..Len(promotions.events) :
          /\ promotions.events[k].tactic = "FLASH_SALE"
          /\ promotions.events[k].discount_percent = 300
          /\ promotions.events[k].price_before = 5000
          /\ promotions.events[k].price_during = 3499

\* the argument holds at most one point, or is absent
AtMostOnePoint ==
    price_history.shape # "series" \/ Len(price_history.price_history) <= 1

\* C9 as stated: the number of events is at most the input length minus 1,
\* for every length >= 0; an empty, single-point or absent history yields an
\* empty result and no error.
C9_AtMostLengthMinusOne ==
    pc = "detected" =>
        /\ Len(promotions.events) <= Len(price_history.price_history) - 1
        /\ AtMostOnePoint => (promotions.events = <<>> /\ ~promotions.raised)

\* C9 amended: the number of events is at most max(input length - 1, 0); an
\* empty, single-point or absent history yields an empty result and no error.
C9_AtMostPairs ==
    pc = "detected" =>
        /\ Len(promotions.events) <= Max(Len(price_history.price_history) - 1, 0)
        /\ AtMostOnePoint => (promotions.events = <<>> /\ ~promotions.raised)

\* C9 witness: a single point whose price is no number gave an empty result
\* and no error
C9_SinglePoint ==
    /\ Detected
    /\ Len(price_history.price_history) = 1
    /\ price_history.price_history[1].price.t = "str"
    /\ to_numeric(price_history.price_history[1].price).t = "none"
    /\ promotions.events = <<>>
    /\ ~promotions.raised

----------------------------------------------------------------------------
(* Properties of the agent tools (SpecTools) *)

Rated(r) == r.rating.t = "num"

\* the tool ran on a fetched table in which no record reaches the review floor
FellBack ==
    /\ pc = "recommended"
    /\ df # <<>>
    /\ \A i \in 1..Len(df) : df[i].review_count < 5

\* C10: when no candidate has review_count >= 5 the result is the top 5 by
\* rating of the unfiltered fetch set, records with fewer than 5 reviews
\* included, and it is a report, not an error.
C10_FallbackTopByRating ==
    FellBack =>
        LET top == report.top_products
            returned == {top[k] : k \in 1..Len(top)}
        IN  /\ report.kind = "rows"
            /\ Len(top) = Min(5, Len(df))
            /\ \A k \in 1..Len(top) : \E i \in 1..Len(df) : df[i] = top[k]
            /\ \A k, l \in 1..Len(top) : k # l => top[k] # top[l]
            /\ \A k, l \in 1..Len(top) :
                  (k < l /\ Rated(top[l])) =>
                      (Rated(top[k]) /\ top[k].rating.n >= top[l].rating.n)
            /\ \A i \in 1..Len(df) : \A k \in 1..Len(top) :
                  (df[i] \notin returned /\ Rated(df[i])) =>
                      (Rated(top[k]) /\ top[k].rating.n >= df[i].rating.n)

\* C10 witness: of six records below the review floor five were returned,
\* one with no review at all, in more than one rating
C10_FiveOfSix ==
    /\ FellBack
    /\ Len(df) = 6
    /\ Len(report.top_products) = 5
    /\ \E k \in 1..5 : report.top_products[k].review_count = 0
    /\ report.top_products[1].rating.n > report.top_products[5].rating.n

----------------------------------------------------------------------------
(* Properties of the ranking tools (SpecRank, SpecTop) *)

\* the row of the fetched table a reported row was taken from; the
\* identifiers of these tables are distinct
RowOf(r) == CHOOSE i \in 1..Len(df) : df[i].product_id = r.product_id

\* the fetched rows that reach the review floor
Candidates == {i \in 1..Len(df) : df[i].review_count >= 5}

\* rating / 5 * 70 + review_count / m * 30 in units of 1 / (100 * m), the
\* rating in hundredths and an absent rating counted as 0
ScoreOver(r, m) ==
    14 * (IF Rated(r) THEN r.rating.n ELSE 0) * m + 3000 * r.review_count

MostReviews ==
    CHOOSE m \in {df[i].review_count : i \in Candidates} :
        \A i \in Candidates : df[i].review_count <= m

RatGeq(a, b) == a.num * b.den >= b.num * a.den
RatEq(a, b) == a.num * b.den = b.num * a.den

----------------------------------------------------------------------------
(* Properties of the promotion statistics (SpecPromo) *)

\* C15: get_promotion_statistics on an empty promotion set returns no
\* statistics object (None), never one whose avg/max/min are 0, and on a
\* non-empty set the count, the mean, the largest and the smallest discount;
\* the display reads the avg/max aggregates only when the promotion list is
\* non-empty.
C15_NoStatisticsOfNoPromotions ==
    /\ pc = "summarized" =>
          /\ promotions.events = <<>> <=> stats = StatisticsNone
          /\ promotions.events # <<>> =>
                /\ stats.t = "dict"
                /\ stats.total = Len(promotions.events)
                /\ stats.avg_discount.num
                       = SumSeq(discounts(promotions.events))
                /\ stats.avg_discount.den = Len(promotions.events)
                /\ \A k \in 1..Len(promotions.events) :
                      /\ promotions.events[k].discount_percent
                             <= stats.max_discount
                      /\ promotions.events[k].discount_percent
                             >= stats.min_discount
                /\ \E k \in 1..Len(promotions.events) :
                      promotions.events[k].discount_percent = stats.max_discount
                /\ \E k \in 1..Len(promotions.events) :
                      promotions.events[k].discount_percent = stats.min_discount
    /\ pc = "shown" =>
          /\ shown.t = "dict" <=> promotions.events # <<>>
          /\ shown.t = "dict" =>
                /\ shown.total = Len(promotions.events)
                /\ ~shown.avg_discount.nan
                /\ shown.avg_discount.den = Len(promotions.events)

\* C15 witness: a series of three prices without a drop, summarized to no
\* statistics object
C15_NoDropNoStatistics ==
    /\ pc = "summarized"
    /\ Len(price_history.price_history) = 3
    /\ promotions.events = <<>>
    /\ stats = StatisticsNone

----------------------------------------------------------------------------
(* Properties of a UI session (SpecSession) *)

\* the answer of the price provider is a failure: no status 200, an
\* exception, or a body that is not a JSON object
PriceCallFailed ==
    /\ price_resp # NoPriceResponse
    /\ \/ price_resp.outcome # "ok"
       \/ price_resp.body.shape = "list"

\* C13 as stated: a provider call that fails never raises past its caller:
\* for every outcome of the HTTP request (non-200 status, exception or
\* timeout, body that is not the expected JSON object) the fetch returns an
\* empty table and get_price_history an empty or absent result, and neither
\* repeats the request.
C13_FailedCallDegradesToEmpty ==
    /\ (pc = "refresh" /\ resp.outcome # "ok") =>
          (fault # FetchFault /\ df = <<>>)
    /\ PriceCallFailed =>
          (fault # LookupFault /\ price_history.shape \in {"none", "empty"})
    /\ requests <= (IF pc = "refresh" THEN 1 ELSE 0)
                   + (IF price_resp # NoPriceResponse THEN 1 ELSE 0)

\* the history alternates user, assistant and ends with an assistant entry
Alternates ==
    /\ Len(messages) % 2 = 0
    /\ \A k \in 1..Len(messages) :
          messages[k].role = IF k % 2 = 1 THEN "user" ELSE "assistant"

\* C14: for every submitted prompt, whether the agent call returns or raises
\* (a quota error included), the history grows by exactly two entries, the
\* user's raw prompt followed by one assistant entry (the answer, or an
\* error message the user sees), and the earlier entries are unchanged; so
\* the history always alternates user, assistant, and the chat input is
\* drawn again for the next prompt.
C14_PromptAddsUserAndAssistant ==
    /\ [][pc' = "chat" =>
             LET n == Len(messages)
                 outcome == report'.outcome
             IN  /\ Len(messages') = n + 2
                 /\ SubSeq(messages', 1, n) = messages
                 /\ messages'[n + 1] = [role |-> "user",
                                        content |-> report'.prompt]
                 /\ messages'[n + 2].role = "assistant"
                 /\ outcome.kind = "returned" =>
                       messages'[n + 2].content = outcome.content
                 /\ outcome.kind = "raised" =>
                       /\ messages'[n + 2].content # <<>>
                       /\ messages'[n + 2].content
                              \in {Chars_QuotaExceeded,
                                   Chars_ErrorPrefix \o outcome.error_msg}
                 /\ Rendered']_vars
    /\ []Alternates

\* C14 witness: a prompt answered with the quota message, the next one with
\* the agent's answer, in a run whose price lookup then raised
C14_AnswerAfterQuotaError ==
    /\ pc = "chat"
    /\ Len(messages) = 4
    /\ messages[2].content = Chars_QuotaExceeded
    /\ messages[3].role = "user"
    /\ messages[4].content = <<"o", "k">>
    /\ fault = LookupFault

\* C16 as stated: at every point of a session the snapshot equals the result
\* of the most recent refresh's fetch, or is empty if there was none: a
\* refresh replaces it wholesale (after a failed or empty fetch it is empty
\* and no row of the earlier snapshot survives), and every other interaction
\* (product selection, chat prompt, ASIN lookup) leaves it unchanged.
C16_SnapshotIsLastFetch ==
    /\ [](session_df = df)
    /\ []((pc = "refresh" /\ resp.outcome # "ok") => session_df = <<>>)
    /\ [][pc' # "refresh" => session_df' = session_df]_vars

====
